---- MODULE Spec2Model ----
(***************************************************************************)
(* Model of the decision-and-submission pass of the ORACLES.run example    *)
(* bots (docs/examples/python/groq_oracle.py, main and its helpers), and   *)
(* of the requests the other example scripts and the two CLIs send.        *)
(*                                                                         *)
(* Python floats are modelled as fixed-point integers in units of 1/Scale  *)
(* (0.55 is 55000).  Values a JSON document may or may not carry are       *)
(* records [kind, val] with kind "num", "missing" or "null".               *)
(*                                                                         *)
(* The list returned by fetch_markets is immutable and main reads element  *)
(* i only in iteration i, so the model fixes the length of the list at     *)
(* the fetch and draws the fields of element i when the loop reaches it.   *)
(***************************************************************************)
EXTENDS Integers, Sequences, FiniteSets, TLC

\* ---------------------------------------------------------------- bounds
MaxTasks == 2
MaxForecasts == 2
Now == 1000
Window == 100
GridN == 400
MaxBatch == 52

\* ------------------------------------------------------ program constants
Scale == 100000
MIN_CONFIDENCE == 55000
MAX_STAKE == 20
HALF == 50000
P_YES_MIN == 1000
P_YES_MAX == 99000
CONF_MAX == 100000
P_YES_DEFAULT == 50000
HTTP_OK == 200
PLACEHOLDER_AGENT_ID == "your-agent-uuid"
PLACEHOLDER_API_KEY == "your-api-key"
SIMPLE_P_YES == 65000
SIMPLE_CONFIDENCE == 70000
SIMPLE_STAKE == 5
SIMPLE_STAKE_MAX == 100
EXAMPLE_STAKE == 10
BATCH_LIMIT == 50

\* ------------------------------------------------------------- input sets
Slugs == {"m1", "m2"}

Num(v) == [kind |-> "num", val |-> v]

Missing == [kind |-> "missing", val |-> 0]

Null == [kind |-> "null", val |-> 0]

NoLabel == "none"

\* deadline_at of a market: an ISO timestamp (held as its unix time) or a
\* missing / unparsable string.
Deadlines ==
  { [kind |-> "bad", t |-> 0],
    [kind |-> "iso", t |-> Now - 1],
    [kind |-> "iso", t |-> Now + Window],
    [kind |-> "iso", t |-> Now + Window + 1] }

\* polymarket_outcomes of a market: absent for a binary market.
OutcomeLists == { <<>>, <<"A", "B">> }

Tasks ==
  [ slug : Slugs, status : {"open", "closed"},
    deadline_at : Deadlines, polymarket_outcomes : OutcomeLists ]

NoTask ==
  [ slug |-> "none", status |-> "none",
    deadline_at |-> [kind |-> "bad", t |-> 0], polymarket_outcomes |-> <<>> ]

\* One record of the my-forecasts response.  market_slug "" stands for an
\* absent slug; p_yes and confidence may be absent or null.
Forecasts ==
  { [market_slug |-> s, p_yes |-> p, confidence |-> Num(80000)] :
      s \in Slugs \cup {""}, p \in {Num(70000), Missing} }

\* What the analysis provider's JSON may hold.  "Z" is a label that is in
\* no market's outcome list.
AiOutputs ==
  { [p_yes |-> Num(80000),  confidence |-> Num(90000),  selected_outcome |-> NoLabel],
    [p_yes |-> Num(80000),  confidence |-> Num(50000),  selected_outcome |-> NoLabel],
    [p_yes |-> Num(80000),  confidence |-> Num(54999),  selected_outcome |-> "A"],
    [p_yes |-> Num(80000),  confidence |-> Num(55000),  selected_outcome |-> "Z"],
    [p_yes |-> Num(80000),  confidence |-> Num(63750),  selected_outcome |-> NoLabel],
    [p_yes |-> Num(30000),  confidence |-> Num(40000),  selected_outcome |-> NoLabel],
    [p_yes |-> Num(30000),  confidence |-> Num(54996),  selected_outcome |-> NoLabel],
    [p_yes |-> Num(150000), confidence |-> Num(120000), selected_outcome |-> "A"],
    [p_yes |-> Missing,     confidence |-> Num(90000),  selected_outcome |-> "A"],
    [p_yes |-> Num(80000),  confidence |-> Missing,     selected_outcome |-> NoLabel],
    [p_yes |-> Null,        confidence |-> Num(90000),  selected_outcome |-> NoLabel] }

\* A JSON answer of the agent-forecast endpoint: HTTP status and the
\* application-level success flag of the body.
JsonResponses ==
  { [status |-> HTTP_OK,  ok |-> TRUE],
    [status |-> HTTP_OK,  ok |-> FALSE],
    [status |-> HTTP_OK + 300, ok |-> FALSE] }

NoResponse == [status |-> 0, ok |-> FALSE]

\* no dict returned by the provider yet
NoAi == [ p_yes |-> Missing, confidence |-> Missing, selected_outcome |-> "unset" ]

NoPayload ==
  [ market_slug |-> "none", p_yes |-> 0, confidence |-> 0,
    stake_units |-> 0, selected_outcome |-> NoLabel ]

VARIABLES
  script,                  \* the script (and command) that is run
  env,                     \* ORACLE_AGENT_ID / ORACLE_API_KEY of the environment
  creds,                   \* the agent id and api key the script works with
  req,                     \* the latest HTTP request handed to requests
  nreq,                    \* number of HTTP requests issued so far
  argv,                    \* the input of the command
  report,                  \* what the command printed about its submission
  res,                     \* the answer to the batch POST, NoBatchResponse if none
  slept,                   \* time.sleep(1.5) ran since the latest POST was sent
  ALLOW_REVOTE,            \* module constant read from the environment
  REVOTE_DEADLINE_WITHIN,  \* module constant read from the environment
  pc,                      \* position of main
  nmarkets,                \* len(markets)
  idx,                     \* 1-based position of m in markets, 0 before the loop
  m,                       \* the loop variable
  existing,                \* dict slug -> prior forecast
  markets_status,          \* how the list-markets call ended
  ledger_status,           \* how the my-forecasts call ended
  ledger_calls,            \* number of my-forecasts requests issued
  now_unix,
  analyzed,                \* analyze() was called for m
  transmitted,             \* number of POSTs issued for m
  ai_json,                 \* ai, the dict analyze() returned for m
  p_yes, confidence, selected, effective_conf, stake,   \* locals of main
  last_sent,               \* body of the POST issued for m, NoPayload if none
  results                  \* the printed per-task lines, in order

vars ==
  << script, env, creds, req, nreq, argv, report, res, slept,
     ALLOW_REVOTE, REVOTE_DEADLINE_WITHIN, pc, nmarkets, idx, m, existing,
     markets_status, ledger_status, ledger_calls, now_unix, analyzed,
     transmitted, ai_json, p_yes, confidence, selected, effective_conf,
     stake, last_sent, results >>


\* ------------------------------------------------- requests and signing
AgentId == "agent-1"

ApiKey == "ap_key"

Envs == [ agent_id : {"", AgentId}, api_key : {"", ApiKey} ]

NoCreds == [ agent_id |-> "", api_key |-> "" ]

\* A request body: the string produced by one serialization of a payload.
\* Two serializations of the same payload are different strings.
Body(ser, payload) == [ ser |-> ser, payload |-> payload ]

NoBody == [ ser |-> "none", payload |-> NoPayload ]

\* hmac.new(api_key.encode(), body.encode(), hashlib.sha256).hexdigest()
Hmac(key, body) == [ key |-> key, msg |-> body ]

NoSig == [ key |-> "none", msg |-> NoBody ]

\* requests.get(url, params=..., headers=...): agent and key are "" when the
\* header is not set
HttpGet(endpoint, agent, key) ==
  [ method |-> "GET", endpoint |-> endpoint, agent |-> agent, key |-> key,
    sig |-> NoSig, body |-> NoBody ]

\* requests.post(url, headers=..., data=body)
HttpPost(endpoint, agent, key, sig, body) ==
  [ method |-> "POST", endpoint |-> endpoint, agent |-> agent, key |-> key,
    sig |-> sig, body |-> body ]

NoRequest ==
  [ method |-> "none", endpoint |-> "none", agent |-> "", key |-> "",
    sig |-> NoSig, body |-> NoBody ]

NoInput == [ kind |-> "none", n |-> 0 ]

NoArgs == [ cmd |-> "none", input |-> NoInput ]

\* what --file of the batch command holds: no such file, text that is not
\* JSON, a JSON object, or a JSON array of n prediction objects
BatchInputs ==
  { [ kind |-> k, n |-> 0 ] : k \in {"nofile", "invalid", "object"} }
    \cup { [ kind |-> "list", n |-> n ] :
             n \in { 0, 1, BATCH_LIMIT - 1, BATCH_LIMIT, BATCH_LIMIT + 1,
                     MaxBatch } }

\* the command lines argparse accepts
Args(s) ==
  IF s = "oracles"
    THEN { [ cmd |-> c, input |-> NoInput ] :
             c \in {"register", "markets", "forecast", "history", "auto"} }
    ELSE { [ cmd |-> c, input |-> NoInput ] :
             c \in {"tasks", "predict", "status", "auto"} }
           \cup { [ cmd |-> "batch", input |-> i ] : i \in BatchInputs }

NoBatchResponse ==
  [ status |-> 0, ok |-> FALSE, upserted |-> 0, errors |-> <<>> ]

\* the commands that start with get_creds()
NeedsCreds == { "forecast", "history", "auto", "predict", "batch", "status" }

\* the answers of agent-predictions-batch: HTTP status, the ok flag, the
\* upserted count and the per-item error list
BatchResponses ==
  [ status : {HTTP_OK, HTTP_OK + 300}, ok : BOOLEAN, upserted : {0, 1},
    errors : { <<>>, <<"e1">>, <<"e1", "e2">> } ]

NoReport == [ kind |-> "none", upserted |-> 0, errors |-> <<>> ]

\* ------------------------------------------------------- pure helpers
Max(a, b) == IF a >= b THEN a ELSE b

Min(a, b) == IF a <= b THEN a ELSE b

\* Python round(num / den) for num >= 0, den > 0: nearest integer, a tie
\* going to the even neighbour.
PyRound(num, den) ==
  LET q == num \div den
      r == num % den
  IN  IF 2 * r > den \/ (2 * r = den /\ q % 2 = 1) THEN q + 1 ELSE q

\* The float product MAX_STAKE * (confidence - 0.5) * 2 is not exact.  On the
\* 1/Scale grid it decides the result of round() only where the exact value
\* is k + 0.5: at these confidences the float lands just above (Up) or just
\* below (Down) the tie, at every other tie it is exact.
FloatTieUp == { 61250, 86250 }

FloatTieDown == { 63750, 88750 }

\* round(MAX_STAKE * (confidence - 0.5) * 2) for confidence >= 0.5
StakeRound(c) ==
  LET num == MAX_STAKE * (c - HALF) * 2
  IN  IF c \in FloatTieUp THEN (num \div Scale) + 1
      ELSE IF c \in FloatTieDown THEN num \div Scale
      ELSE PyRound(num, Scale)

\* mutant: the threshold test is inverted
calc_stake_inverted(c) ==
  IF c >= MIN_CONFIDENCE
    THEN 0
    ELSE Max(1, Min(MAX_STAKE, StakeRound(Max(c, HALF))))

\* mutant: the stake is scaled from confidence 0 instead of 0.5
calc_stake_from_zero(c) ==
  IF c < MIN_CONFIDENCE
    THEN 0
    ELSE Max(1, Min(MAX_STAKE, PyRound(MAX_STAKE * c, Scale)))

\* mutant: the threshold test uses 0.5 instead of MIN_CONFIDENCE
calc_stake_half_threshold(c) ==
  IF c < HALF
    THEN 0
    ELSE Max(1, Min(MAX_STAKE, PyRound(MAX_STAKE * (c - HALF) * 2, Scale)))

\* calc_stake(confidence), confidence in units of 1/Scale.
calc_stake(c) ==
  IF c < MIN_CONFIDENCE
    THEN 0
    ELSE Max(1, Min(MAX_STAKE, StakeRound(c)))

\* mutant: an unparsable deadline counts as lying beyond every window
iso_to_unix_no_deadline(d) ==
  IF d.kind = "iso" THEN d.t ELSE Now + Window + Window + 1

\* iso_to_unix(iso_str): the unix time of a parsable timestamp, else 0.
iso_to_unix(d) == IF d.kind = "iso" THEN d.t ELSE 0

\* float(ai.get(key, default)) raises for a JSON null; a missing key takes
\* the default.
FloatRaises(v) == v.kind = "null"

FloatOr(v, default) == IF v.kind = "num" THEN v.val ELSE default

\* max(lo, min(hi, x))
Clamp(lo, hi, x) == Max(lo, Min(hi, x))

\* {f["market_slug"]: f for f in forecasts if f.get("market_slug")}: records
\* without a slug are dropped, a later record replaces an earlier one.
RECURSIVE BySlug(_)
BySlug(fs) ==
  IF fs = <<>>
    THEN [s \in {} |-> Missing]
    ELSE LET n    == Len(fs)
             f    == fs[n]
             rest == BySlug(SubSeq(fs, 1, n - 1))
         IN  IF f.market_slug = ""
               THEN rest
               ELSE [s \in DOMAIN rest \cup {f.market_slug} |->
                       IF s = f.market_slug
                         THEN [p_yes |-> f.p_yes, confidence |-> f.confidence]
                         ELSE rest[s]]

ForecastLists ==
  UNION { [1..n -> Forecasts] : n \in 0..MaxForecasts }

\* f"{ex['p_yes']:.2f} ... {ex['confidence']:.2f}" raises when a field is
\* absent (KeyError) or null (TypeError).
FormatRaises(ex) == ex.p_yes.kind # "num" \/ ex.confidence.kind # "num"

\* mutant: the window test is made although REVOTE_DEADLINE_WITHIN is 0
RevoteBranch_no_window_guard(mk, allow, within, now) ==
  IF allow
    THEN "revote"
    ELSE IF iso_to_unix(mk.deadline_at) - now <= within
           THEN "revote"
           ELSE "already_voted"

\* The branch of lines 151-169 taken for an open market m that is in
\* existing: "revote" falls through to the analysis, "already_voted"
\* prints ALREADY VOTED and continues.
RevoteBranch(mk, allow, within, now) ==
  IF allow
    THEN "revote"
    ELSE IF within > 0
           THEN IF iso_to_unix(mk.deadline_at) - now <= within
                  THEN "revote"
                  ELSE "already_voted"
           ELSE "already_voted"

\* mutant: the closed test is made only for markets without a prior forecast
IsClosed_after_prior(mk) == mk.status = "closed" /\ mk.slug \notin DOMAIN existing

\* m.get("status") == "closed" (147)
IsClosed(mk) == mk.status = "closed"

\* One printed line of the pass: the market, the outcome printed for it,
\* whether analyze() was called, how many POSTs went out and the answer.
Line(outcome, an, tx, resp) ==
  [ idx |-> idx, slug |-> m.slug, outcome |-> outcome,
    analyzed |-> an, transmitted |-> tx, resp |-> resp ]

\* mutant: the exception is not caught inside the loop
ExceptPc_uncaught == "crash"

\* mutant: the failed step is tried again instead of going to the next market
ExceptPc_retry == "submit"

\* except Exception as e: print(...) -- the loop goes on with the next market.
ExceptPc == "loop"

\* mutant: the continue is lost and the iteration falls through to analyze
ContinuePc_fallthrough == "analyze"

\* continue after the EXPIRED / ALREADY VOTED / SKIP line.
ContinuePc == "loop"


\* ------------------------------------------------------------------ Init
\* the example agents that pass a provider estimate on unchanged
Examples == { "openai", "claude", "gemini" }

\* oracles.py (v1) and oracles2.py (v2), the command-line scripts
Clis == { "oracles", "oracles2" }

Scripts == { "groq", "simple" } \cup Examples \cup Clis

Init ==
  /\ script \in Scripts
  /\ env \in Envs
  /\ creds = NoCreds
  /\ req = NoRequest
  /\ nreq = 0
  /\ argv = NoArgs
  /\ report = NoReport
  /\ res = NoBatchResponse
  /\ slept = TRUE
  /\ IF script = "groq"
       THEN ALLOW_REVOTE \in BOOLEAN /\ REVOTE_DEADLINE_WITHIN \in {0, Window}
       ELSE ALLOW_REVOTE = FALSE /\ REVOTE_DEADLINE_WITHIN = 0
  /\ pc = "import"
  /\ nmarkets = 0
  /\ idx = 0
  /\ m = NoTask
  /\ existing = [s \in {} |-> Missing]
  /\ markets_status = "none"
  /\ ledger_status = "none"
  /\ ledger_calls = 0
  /\ now_unix = 0
  /\ analyzed = FALSE
  /\ transmitted = 0
  /\ ai_json = NoAi
  /\ p_yes = 0
  /\ confidence = 0
  /\ selected = NoLabel
  /\ effective_conf = 0
  /\ stake = 0
  /\ last_sent = NoPayload
  /\ results = <<>>

Locals == << ai_json, p_yes, confidence, selected, effective_conf, stake >>

Config == << script, env, ALLOW_REVOTE, REVOTE_DEADLINE_WITHIN >>

\* what the steps of groq_oracle.main leave alone
Idle == << creds, argv, report, res, slept >>

Net == << req, nreq >>

\* every variable of the groq_oracle pass
Pass ==
  << ALLOW_REVOTE, REVOTE_DEADLINE_WITHIN, nmarkets, idx, m, existing,
     markets_status, ledger_status, ledger_calls, now_unix, analyzed,
     transmitted, Locals, last_sent, results >>

\* ------------------------------------- groq_oracle.py configuration (26-28)
\* os.environ.get(...) or sys.exit(...): an unset or empty variable ends the
\* process while the module is loaded
GroqImport ==
  /\ pc = "import"
  /\ script = "groq"
  /\ IF env.agent_id = "" \/ env.api_key = ""
       THEN pc' = "exit" /\ UNCHANGED creds
       ELSE pc' = "start" /\ creds' = env
  /\ UNCHANGED << script, env, Net, argv, report, res, slept, Pass >>

\* ------------------------------------------------- fetch_markets (38-42)
FetchMarketsOk ==
  /\ pc = "start"
  /\ \E n \in 0..MaxTasks : nmarkets' = n
  /\ markets_status' = "ok"
  /\ pc' = "ledger"
  /\ req' = HttpGet("list-markets", "", "")
  /\ nreq' = nreq + 1
  /\ UNCHANGED << Config, Idle, idx, m, existing, ledger_status, ledger_calls,
                  now_unix, analyzed, transmitted, Locals, last_sent, results >>

\* mutant: a failed listing is taken for an empty list and the pass goes on
FetchMarketsHttpError_goes_on ==
  /\ pc = "start"
  /\ markets_status' = "http_error"
  /\ nmarkets' = 0
  /\ pc' = "ledger"
  /\ req' = HttpGet("list-markets", "", "")
  /\ nreq' = nreq + 1
  /\ UNCHANGED << Config, Idle, idx, m, existing, ledger_status, ledger_calls,
                  now_unix, analyzed, transmitted, Locals, last_sent, results >>

\* status_code != 200: sys.exit
FetchMarketsHttpError ==
  /\ pc = "start"
  /\ markets_status' = "http_error"
  /\ pc' = "exit"
  /\ req' = HttpGet("list-markets", "", "")
  /\ nreq' = nreq + 1
  /\ UNCHANGED << Config, Idle, nmarkets, idx, m, existing, ledger_status,
                  ledger_calls, now_unix, analyzed, transmitted, Locals,
                  last_sent, results >>

\* requests.get raises (connection failure, timeout): nothing catches it
FetchMarketsRaises ==
  /\ pc = "start"
  /\ markets_status' = "raised"
  /\ pc' = "crash"
  /\ req' = HttpGet("list-markets", "", "")
  /\ nreq' = nreq + 1
  /\ UNCHANGED << Config, Idle, nmarkets, idx, m, existing, ledger_status,
                  ledger_calls, now_unix, analyzed, transmitted, Locals,
                  last_sent, results >>

\* -------------------------------------------- fetch_my_forecasts (46-57)
\* followed by now_unix = int(time.time()) of main (142)
FetchMyForecastsOk ==
  /\ pc = "ledger"
  /\ \E fs \in ForecastLists : existing' = BySlug(fs)
  /\ ledger_status' = "ok"
  /\ ledger_calls' = ledger_calls + 1
  /\ now_unix' = Now
  /\ pc' = "loop"
  /\ req' = HttpGet("my-forecasts", creds.agent_id, creds.api_key)
  /\ nreq' = nreq + 1
  /\ UNCHANGED << Config, Idle, nmarkets, idx, m, markets_status, analyzed,
                  transmitted, Locals, last_sent, results >>

\* mutant: the status code is not tested and the body is parsed anyway
FetchMyForecastsHttpError_unchecked ==
  /\ pc = "ledger"
  /\ \E fs \in ForecastLists : existing' = BySlug(fs)
  /\ ledger_status' = "http_error"
  /\ ledger_calls' = ledger_calls + 1
  /\ now_unix' = Now
  /\ pc' = "loop"
  /\ req' = HttpGet("my-forecasts", creds.agent_id, creds.api_key)
  /\ nreq' = nreq + 1
  /\ UNCHANGED << Config, Idle, nmarkets, idx, m, markets_status, analyzed,
                  transmitted, Locals, last_sent, results >>

\* status_code != 200: warning, return {}
FetchMyForecastsHttpError ==
  /\ pc = "ledger"
  /\ existing' = [s \in {} |-> Missing]
  /\ ledger_status' = "http_error"
  /\ ledger_calls' = ledger_calls + 1
  /\ now_unix' = Now
  /\ pc' = "loop"
  /\ req' = HttpGet("my-forecasts", creds.agent_id, creds.api_key)
  /\ nreq' = nreq + 1
  /\ UNCHANGED << Config, Idle, nmarkets, idx, m, markets_status, analyzed,
                  transmitted, Locals, last_sent, results >>

\* requests.get raises: fetch_my_forecasts has no handler and main calls it
\* outside the try block, so the exception ends the process.
FetchMyForecastsRaises ==
  /\ pc = "ledger"
  /\ ledger_status' = "raised"
  /\ ledger_calls' = ledger_calls + 1
  /\ pc' = "crash"
  /\ req' = HttpGet("my-forecasts", creds.agent_id, creds.api_key)
  /\ nreq' = nreq + 1
  /\ UNCHANGED << Config, Idle, nmarkets, idx, m, existing, markets_status,
                  now_unix, analyzed, transmitted, Locals, last_sent, results >>

\* ------------------------------------------------- for m in markets (144)
NextTask ==
  /\ pc = "loop"
  /\ idx < nmarkets
  /\ idx' = idx + 1
  /\ m' \in Tasks
  /\ analyzed' = FALSE
  /\ transmitted' = 0
  /\ ai_json' = NoAi
  /\ p_yes' = 0
  /\ confidence' = 0
  /\ selected' = NoLabel
  /\ effective_conf' = 0
  /\ stake' = 0
  /\ last_sent' = NoPayload
  /\ pc' = "check"
  /\ req' = NoRequest
  /\ UNCHANGED nreq
  /\ UNCHANGED << Config, Idle, nmarkets, existing, markets_status, ledger_status,
                  ledger_calls, now_unix, results >>

\* the list is exhausted: print("Done!") (202)
LoopDone ==
  /\ pc = "loop"
  /\ idx = nmarkets
  /\ pc' = "done"
  /\ UNCHANGED << Config, Idle, Net, nmarkets, idx, m, existing, markets_status,
                  ledger_status, ledger_calls, now_unix, analyzed, transmitted,
                  Locals, last_sent, results >>

Record(line, nextpc) ==
  /\ results' = Append(results, line)
  /\ pc' = nextpc

\* ---------------------------------------------------- closed check (147-149)
TaskExpired ==
  /\ pc = "check"
  /\ IsClosed(m)
  /\ Record(Line("Expired", analyzed, transmitted, NoResponse), ContinuePc)
  /\ UNCHANGED << Config, Idle, Net, nmarkets, idx, m, existing, markets_status,
                  ledger_status, ledger_calls, now_unix, analyzed, transmitted,
                  Locals, last_sent >>

\* ------------------------------------------- prior-forecast check (151-169)
\* no prior forecast, or a branch that prints RE-VOTING: go on to analyze
TaskEligible ==
  /\ pc = "check"
  /\ ~IsClosed(m)
  /\ \/ m.slug \notin DOMAIN existing
     \/ /\ m.slug \in DOMAIN existing
        /\ RevoteBranch(m, ALLOW_REVOTE, REVOTE_DEADLINE_WITHIN, now_unix) = "revote"
  /\ pc' = "analyze"
  /\ UNCHANGED << Config, Idle, Net, nmarkets, idx, m, existing, markets_status,
                  ledger_status, ledger_calls, now_unix, analyzed, transmitted,
                  Locals, last_sent, results >>

\* ALREADY VOTED is printed (164 / 168), then continue
TaskAlreadyVoted ==
  /\ pc = "check"
  /\ ~IsClosed(m)
  /\ m.slug \in DOMAIN existing
  /\ RevoteBranch(m, ALLOW_REVOTE, REVOTE_DEADLINE_WITHIN, now_unix) = "already_voted"
  /\ ~FormatRaises(existing[m.slug])
  /\ Record(Line("AlreadyVoted", analyzed, transmitted, NoResponse), ContinuePc)
  /\ UNCHANGED << Config, Idle, Net, nmarkets, idx, m, existing, markets_status,
                  ledger_status, ledger_calls, now_unix, analyzed, transmitted,
                  Locals, last_sent >>

\* building the ALREADY VOTED line raises (164 / 168): the except clause
\* prints the failure line instead
TaskAlreadyVotedPrintRaises ==
  /\ pc = "check"
  /\ ~IsClosed(m)
  /\ m.slug \in DOMAIN existing
  /\ RevoteBranch(m, ALLOW_REVOTE, REVOTE_DEADLINE_WITHIN, now_unix) = "already_voted"
  /\ FormatRaises(existing[m.slug])
  /\ Record(Line("Failed", analyzed, transmitted, NoResponse), ExceptPc)
  /\ UNCHANGED << Config, Idle, Net, nmarkets, idx, m, existing, markets_status,
                  ledger_status, ledger_calls, now_unix, analyzed, transmitted,
                  Locals, last_sent >>


\* ------------------------------------------------ estimate -> locals (173-187)
\* len(outcomes) > 1 takes the provider's selected_outcome, else None
SelectedOf(ai, mk) ==
  IF Len(mk.polymarket_outcomes) > 1 THEN ai.selected_outcome ELSE NoLabel

PYesOf(ai) == Clamp(P_YES_MIN, P_YES_MAX, FloatOr(ai.p_yes, P_YES_DEFAULT))

ConfidenceOf(ai) == Clamp(0, CONF_MAX, FloatOr(ai.confidence, 0))

\* mutant: the raw confidence is fed to calc_stake whatever p_yes is
EffectiveConf_raw(ai, mk) == ConfidenceOf(ai)

\* is_binary and p_yes < 0.5: max(confidence, 1.0 - p_yes)
EffectiveConf(ai, mk) ==
  LET is_binary == Len(mk.polymarket_outcomes) <= 1 /\ SelectedOf(ai, mk) = NoLabel
  IN  IF is_binary /\ PYesOf(ai) < HALF
        THEN Max(ConfidenceOf(ai), Scale - PYesOf(ai))
        ELSE ConfidenceOf(ai)

\* round(x, 4) of submit_forecast, x in units of 1/Scale
Round4(x) == PyRound(x, Scale \div 10000) * (Scale \div 10000)

\* mutant: the confidence that sized the stake is the one reported
Payload_effective(slug, p, c, st, sel) ==
  [ market_slug |-> slug, p_yes |-> Round4(p),
    confidence |-> Round4(effective_conf),
    stake_units |-> st, selected_outcome |-> sel ]

\* payload of submit_forecast (98-106); the rationale text is not modelled
Payload(slug, p, c, st, sel) ==
  [ market_slug |-> slug, p_yes |-> Round4(p), confidence |-> Round4(c),
    stake_units |-> st, selected_outcome |-> sel ]

\* body = json.dumps(payload)
Serialize(payload) == Body("json.dumps", payload)

\* the POST of submit_forecast (108-121): the signature is computed over the
\* string body and the same string is passed as data
SignedPost(endpoint, c, body) ==
  HttpPost(endpoint, c.agent_id, c.api_key, Hmac(c.api_key, body), body)

\* ----------------------------------------------------------- analyze (171)
\* analyze() raises (provider error, json.loads on unparsable content)
AnalyzeRaises ==
  /\ pc = "analyze"
  /\ analyzed' = TRUE
  /\ Record(Line("Failed", TRUE, transmitted, NoResponse), ExceptPc)
  /\ UNCHANGED << Config, Idle, Net, nmarkets, idx, m, existing, markets_status,
                  ledger_status, ledger_calls, now_unix, transmitted, Locals,
                  last_sent >>

\* analyze() returns ai; lines 173-191 run to the stake test
AnalyzeReturns ==
  /\ pc = "analyze"
  /\ analyzed' = TRUE
  /\ \E ai \in AiOutputs :
       /\ ai_json' = ai
       /\ IF FloatRaises(ai.p_yes) \/ FloatRaises(ai.confidence)
         THEN /\ Record(Line("Failed", TRUE, transmitted, NoResponse), ExceptPc)
              /\ UNCHANGED << p_yes, confidence, selected, effective_conf,
                              stake >>
         ELSE /\ p_yes' = PYesOf(ai)
              /\ confidence' = ConfidenceOf(ai)
              /\ selected' = SelectedOf(ai, m)
              /\ effective_conf' = EffectiveConf(ai, m)
              /\ stake' = calc_stake(EffectiveConf(ai, m))
              /\ IF calc_stake(EffectiveConf(ai, m)) = 0
                   THEN Record(Line("Skipped", TRUE, transmitted, NoResponse), ContinuePc)
                   ELSE /\ pc' = "submit"
                        /\ UNCHANGED results
  /\ UNCHANGED << Config, Idle, Net, nmarkets, idx, m, existing, markets_status,
                  ledger_status, ledger_calls, now_unix, transmitted, last_sent >>

\* --------------------------------------------- submit_forecast (97-122, 193-195)
\* What main prints once submit_forecast has returned the parsed answer.
AfterSubmit(resp) == "Submitted"

\* the POST is answered with a JSON body: submit_forecast returns it and
\* main prints the success line
SubmitReturns ==
  /\ pc = "submit"
  /\ last_sent' = Payload(m.slug, p_yes, confidence, stake, selected)
  /\ transmitted' = transmitted + 1
  /\ \E resp \in JsonResponses :
       Record(Line(AfterSubmit(resp), analyzed, transmitted + 1, resp), "sleep")
  /\ req' = SignedPost("agent-forecast", creds,
                       Serialize(Payload(m.slug, p_yes, confidence, stake, selected)))
  /\ nreq' = nreq + 1
  /\ slept' = FALSE
  /\ UNCHANGED << Config, creds, argv, report, res, nmarkets, idx, m, existing,
                  markets_status, ledger_status, ledger_calls, now_unix,
                  analyzed, Locals >>

\* requests.post raises before the request left (delivered = FALSE), or it
\* times out / res.json() raises on a non-JSON answer (delivered = TRUE);
\* time.sleep(1.5), the last statement of the try block, is not reached
SubmitRaises ==
  /\ pc = "submit"
  /\ \E delivered \in BOOLEAN :
       /\ transmitted' = IF delivered THEN transmitted + 1 ELSE transmitted
       /\ slept' = IF delivered THEN FALSE ELSE slept
       /\ last_sent' = IF delivered
                         THEN Payload(m.slug, p_yes, confidence, stake, selected)
                         ELSE last_sent
       /\ Record(Line("Failed", analyzed,
                      IF delivered THEN transmitted + 1 ELSE transmitted,
                      NoResponse), ExceptPc)
  /\ req' = SignedPost("agent-forecast", creds,
                       Serialize(Payload(m.slug, p_yes, confidence, stake, selected)))
  /\ nreq' = nreq + 1
  /\ UNCHANGED << Config, creds, argv, report, res, nmarkets, idx, m, existing,
                  markets_status, ledger_status, ledger_calls, now_unix,
                  analyzed, Locals >>

\* mutant: the ledger is fetched again after every submission
Sleep_refetch ==
  /\ pc = "sleep"
  /\ pc' = "ledger"
  /\ slept' = TRUE
  /\ UNCHANGED << Config, creds, argv, report, res, Net, nmarkets, idx, m, existing, markets_status,
                  ledger_status, ledger_calls, now_unix, analyzed, transmitted,
                  Locals, last_sent, results >>

\* time.sleep(1.5) (197)
Sleep ==
  /\ pc = "sleep"
  /\ pc' = "loop"
  /\ slept' = TRUE
  /\ UNCHANGED << Config, creds, argv, report, res, Net, nmarkets, idx, m, existing, markets_status,
                  ledger_status, ledger_calls, now_unix, analyzed, transmitted,
                  Locals, last_sent, results >>

\* ------------------------------------------------------------------ Next
\* ------------------------------------------------ simple_oracle.py (17-19)
\* os.environ.get(name, default): an unset variable is replaced by the
\* placeholder text and the module loads
SimpleImport ==
  /\ pc = "import"
  /\ script = "simple"
  /\ creds' = [ agent_id |-> IF env.agent_id = "" THEN PLACEHOLDER_AGENT_ID
                                                   ELSE env.agent_id,
                api_key  |-> IF env.api_key = "" THEN PLACEHOLDER_API_KEY
                                                 ELSE env.api_key ]
  /\ pc' = "submit_forecast"
  /\ UNCHANGED << script, env, Net, argv, report, res, slept, Pass >>

\* body of simple_oracle.submit_forecast (53-59); the lower stake bound 0.1
\* is below every stake the script passes
SimplePayload(slug, p, c, st) ==
  [ market_slug |-> slug, p_yes |-> Clamp(0, Scale, p),
    confidence |-> Clamp(0, Scale, c),
    stake_units |-> Min(SIMPLE_STAKE_MAX, st), selected_outcome |-> NoLabel ]

\* what the example scripts print about the answer: result.get("success")
ReportOf(resp) ==
  [ kind |-> IF resp.ok THEN "submitted" ELSE "error",
    upserted |-> 0, errors |-> <<>> ]

\* main (106-119): submit_forecast with the literal arguments, answered
SimpleSubmit ==
  /\ pc = "submit_forecast"
  /\ script = "simple"
  /\ LET payload == SimplePayload("btc", SIMPLE_P_YES, SIMPLE_CONFIDENCE,
                                  SIMPLE_STAKE)
     IN  /\ req' = SignedPost("agent-forecast", creds, Serialize(payload))
         /\ last_sent' = payload
  /\ nreq' = nreq + 1
  /\ \E answered \in BOOLEAN :
       IF answered
         THEN \E resp \in JsonResponses :
                report' = ReportOf(resp) /\ pc' = "check_results"
         ELSE pc' = "crash" /\ UNCHANGED report
  /\ UNCHANGED << Config, creds, argv, res, slept, nmarkets, idx, m, existing,
                  markets_status, ledger_status, ledger_calls, now_unix,
                  analyzed, transmitted, Locals, results >>

\* check_results (91-100) and the loop printing the forecasts (122-128)
CheckResults ==
  /\ pc = "check_results"
  /\ req' = HttpGet("my-forecasts", creds.agent_id, creds.api_key)
  /\ nreq' = nreq + 1
  /\ pc' \in {"done", "crash"}
  /\ UNCHANGED << Config, Idle, Pass >>

\* ------------------- openai_oracle.py, claude_oracle.py, gemini_oracle.py
\* os.environ[name] (18-21): an unset variable raises KeyError
ExampleImport ==
  /\ pc = "import"
  /\ script \in Examples
  /\ IF env.agent_id = "" \/ env.api_key = ""
       THEN pc' = "crash" /\ UNCHANGED creds
       ELSE pc' = "forecast_market" /\ creds' = env
  /\ UNCHANGED << script, env, Net, argv, report, res, slept, Pass >>

\* forecast_market up to the call of submit_forecast: analyze_market and the
\* line that formats prediction['p_yes'] and prediction['confidence']
ExampleAnalyze ==
  /\ pc = "forecast_market"
  /\ \E raises \in BOOLEAN :
     \E ai \in AiOutputs :
       IF raises
         THEN pc' = "crash"
              /\ UNCHANGED << ai_json, p_yes, confidence, selected >>
       ELSE IF ai.p_yes.kind # "num" \/ ai.confidence.kind # "num"
         THEN pc' = "crash" /\ ai_json' = ai
              /\ UNCHANGED << p_yes, confidence, selected >>
         ELSE /\ ai_json' = ai
              /\ p_yes' = ai.p_yes.val
              /\ confidence' = ai.confidence.val
              /\ selected' = IF script = "claude" THEN NoLabel
                                                  ELSE ai.selected_outcome
              /\ pc' = "submit_forecast"
  /\ UNCHANGED << Config, Idle, Net, nmarkets, idx, m, existing,
                  markets_status, ledger_status, ledger_calls, now_unix,
                  analyzed, transmitted, effective_conf, stake, last_sent,
                  results >>

\* payload of the examples' submit_forecast: prediction["p_yes"] and
\* prediction["confidence"] as the provider gave them
ExamplePayload(slug, p, c, st, sel) ==
  [ market_slug |-> slug, p_yes |-> p, confidence |-> c,
    stake_units |-> st, selected_outcome |-> sel ]

\* submit_forecast and the rest of forecast_market
ExampleSubmit ==
  /\ pc = "submit_forecast"
  /\ script \in Examples
  /\ LET payload == ExamplePayload("btc", p_yes, confidence, EXAMPLE_STAKE,
                                   selected)
     IN  /\ req' = SignedPost("agent-forecast", creds, Serialize(payload))
         /\ last_sent' = payload
  /\ nreq' = nreq + 1
  /\ \E answered \in BOOLEAN :
       IF answered
         THEN \E resp \in JsonResponses :
                /\ report' = ReportOf(resp)
                /\ pc' = IF script = "openai" THEN "check_results" ELSE "done"
         ELSE pc' = "crash" /\ UNCHANGED report
  /\ UNCHANGED << Config, creds, argv, res, slept, nmarkets, idx, m, existing,
                  markets_status, ledger_status, ledger_calls, now_unix,
                  analyzed, transmitted, Locals, results >>

\* ------------------------------------------- oracles.py and oracles2.py
\* main: parser.parse_args() and the dispatch on args.command
ParseArgs ==
  /\ pc = "import"
  /\ script \in Clis
  /\ argv' \in Args(script)
  /\ pc' = "dispatch"
  /\ UNCHANGED << Config, creds, report, res, slept, Net, Pass >>

\* get_creds (32-40 in both scripts)
get_creds ==
  /\ pc = "dispatch"
  /\ argv.cmd \in NeedsCreds
  /\ IF env.agent_id = "" \/ env.api_key = ""
       THEN pc' = "exit" /\ UNCHANGED creds
       ELSE pc' = argv.cmd /\ creds' = env
  /\ UNCHANGED << Config, argv, report, res, slept, Net, Pass >>

\* how a command that got its answer ends: printed and returned, or
\* sys.exit / an exception while the answer is read
Sent(r, ends) ==
  /\ req' = r
  /\ nreq' = nreq + 1
  /\ pc' \in ends
  /\ UNCHANGED << Config, Idle, Pass >>

\* payload of cmd_register (52-59)
RegisterPayload == [ invite_code |-> "inv", name |-> "bot" ]

\* oracles.py cmd_register (41-86): json=payload, Content-Type only
cmd_register ==
  /\ pc = "dispatch"
  /\ argv.cmd = "register"
  /\ \E valid \in BOOLEAN :
       IF valid
         THEN Sent(HttpPost("register-agent", "", "", NoSig,
                            Body("requests.json", RegisterPayload)),
                   {"done", "exit", "crash"})
         ELSE pc' = "exit" /\ UNCHANGED << Config, Idle, Net, Pass >>

\* oracles.py cmd_markets (89-119), oracles2.py cmd_tasks (61-113)
cmd_markets ==
  /\ pc = "dispatch"
  /\ argv.cmd \in {"markets", "tasks"}
  /\ Sent(HttpGet(IF argv.cmd = "markets" THEN "list-markets"
                                          ELSE "agent-tasks", "", ""),
          {"done", "exit", "crash"})

\* body of oracles.py cmd_forecast (126-134) with the values of the command
\* line
CliPayload ==
  { ExamplePayload("m1", p, c, 1, sel) :
      p \in {60000, 150000}, c \in {80000}, sel \in {NoLabel, "A"} }

\* oracles.py cmd_forecast (122-158)
cmd_forecast ==
  /\ pc = "forecast"
  /\ \E payload \in CliPayload :
       Sent(SignedPost("agent-forecast", creds, Serialize(payload)),
            {"done", "exit", "crash"})

\* oracles.py cmd_history (161-194), oracles2.py cmd_status (212-246)
cmd_history ==
  /\ pc \in {"history", "status"}
  /\ Sent(HttpGet(IF pc = "history" THEN "my-forecasts" ELSE "my-predictions",
                  creds.agent_id, creds.api_key),
          {"done", "exit", "crash"})

\* cmd_auto, first request (oracles.py 202-206, oracles2.py 262-277)
cmd_auto ==
  /\ pc = "auto"
  /\ Sent(HttpGet(IF script = "oracles" THEN "list-markets" ELSE "agent-tasks",
                  "", ""),
          IF script = "oracles" THEN {"auto_existing", "exit", "crash"}
                                ELSE {"auto_existing", "done", "exit", "crash"})

\* cmd_auto, second request and the printed list (oracles.py 209-248,
\* oracles2.py 280-317)
cmd_auto_existing ==
  /\ pc = "auto_existing"
  /\ Sent(HttpGet(IF script = "oracles" THEN "my-forecasts"
                                        ELSE "my-predictions",
                  creds.agent_id, creds.api_key),
          {"done", "crash"})

\* one prediction object of the batch file
Prediction ==
  [ pack_market_id |-> "pm", p_yes |-> 60000, confidence |-> 80000,
    stake |-> 5 ]

\* payload of cmd_predict (132-135) and cmd_batch (184-187)
BatchPayload(round, predictions) ==
  [ round_id |-> round, predictions |-> predictions ]

\* mutant: the body is serialized again for the request after it was signed
SignedBatchPost_resent(c, payload) ==
  HttpPost("agent-predictions-batch", c.agent_id, c.api_key,
           Hmac(c.api_key, Serialize(payload)),
           Body("requests.json", payload))

\* body = json.dumps(payload); headers = auth_headers(agent_id, api_key,
\* body); data = body
SignedBatchPost(c, payload) ==
  SignedPost("agent-predictions-batch", c, Serialize(payload))

\* mutant: the HTTP status alone decides
BatchSucceeded_status_only(r) == r.status = HTTP_OK

\* res.status_code == 200 and result.get("ok") (146, 198)
BatchSucceeded(r) == r.status = HTTP_OK /\ r.ok

\* the branch on the answer (146-155, 198-206): the success line with the
\* upserted count (batch only) and one line per item error, or the error
\* line and sys.exit(1)
BatchAnswered(r, count) ==
  /\ res' = r
  /\ IF BatchSucceeded(r)
       THEN /\ report' = [ kind |-> "ok",
                           upserted |-> IF count THEN r.upserted ELSE 0,
                           errors |-> r.errors ]
            /\ pc' = "done"
       ELSE /\ report' = [ kind |-> "error", upserted |-> 0, errors |-> <<>> ]
            /\ pc' = "exit"

\* oracles2.py cmd_predict (119-155)
cmd_predict ==
  /\ pc = "predict"
  /\ req' = SignedBatchPost(creds, BatchPayload("r1", << Prediction >>))
  /\ nreq' = nreq + 1
  /\ \E answered \in BOOLEAN :
       IF answered
         THEN \E r \in BatchResponses : BatchAnswered(r, FALSE)
         ELSE pc' = "crash" /\ UNCHANGED << report, res >>
  /\ UNCHANGED << Config, creds, argv, slept, Pass >>

\* mutant: the length test lets one more prediction through
TooMany_off_by_one(n) == n > BATCH_LIMIT + 1

\* len(predictions) > 50 (181)
TooMany(n) == n > BATCH_LIMIT

\* oracles2.py cmd_batch (161-206)
cmd_batch ==
  /\ pc = "batch"
  /\ IF argv.input.kind # "list" \/ TooMany(argv.input.n)
       THEN /\ pc' = "exit"
            /\ UNCHANGED << Net, report, res >>
       ELSE /\ req' = SignedBatchPost(creds,
                         BatchPayload("r1", [ i \in 1..argv.input.n |-> Prediction ]))
            /\ nreq' = nreq + 1
            /\ \E answered \in BOOLEAN :
                 IF answered
                   THEN \E r \in BatchResponses : BatchAnswered(r, TRUE)
                   ELSE pc' = "crash" /\ UNCHANGED << report, res >>
  /\ UNCHANGED << Config, creds, argv, slept, Pass >>

Next ==
  \/ GroqImport
  \/ SimpleImport
  \/ SimpleSubmit
  \/ CheckResults
  \/ ExampleImport
  \/ ExampleAnalyze
  \/ ExampleSubmit
  \/ ParseArgs
  \/ get_creds
  \/ cmd_register
  \/ cmd_markets
  \/ cmd_forecast
  \/ cmd_history
  \/ cmd_auto
  \/ cmd_auto_existing
  \/ cmd_predict
  \/ cmd_batch
  \/ FetchMarketsOk
  \/ FetchMarketsHttpError
  \/ FetchMarketsRaises
  \/ FetchMyForecastsOk
  \/ FetchMyForecastsHttpError
  \/ FetchMyForecastsRaises
  \/ NextTask
  \/ LoopDone
  \/ TaskExpired
  \/ TaskEligible
  \/ TaskAlreadyVoted
  \/ TaskAlreadyVotedPrintRaises
  \/ AnalyzeRaises
  \/ AnalyzeReturns
  \/ SubmitReturns
  \/ SubmitRaises
  \/ Sleep

Spec == Init /\ [][Next]_vars

\* --------------------------------------------- calc_stake on its own (90-93)
\* confidences 0, 1/GridN, ..., 1 and the values around the threshold and
\* at the float ties
StakeGrid ==
  { (k * Scale) \div GridN : k \in 0..GridN }
    \cup { MIN_CONFIDENCE - 1, MIN_CONFIDENCE, MIN_CONFIDENCE + 1 }
    \cup FloatTieUp \cup FloatTieDown

InitStake ==
  /\ script = "groq"
  /\ env = [ agent_id |-> AgentId, api_key |-> ApiKey ]
  /\ creds = env
  /\ req = NoRequest
  /\ nreq = 0
  /\ argv = NoArgs
  /\ report = NoReport
  /\ res = NoBatchResponse
  /\ slept = TRUE
  /\ ALLOW_REVOTE = FALSE
  /\ REVOTE_DEADLINE_WITHIN = 0
  /\ pc = "stake_call"
  /\ nmarkets = 0
  /\ idx = 0
  /\ m = NoTask
  /\ existing = [s \in {} |-> Missing]
  /\ markets_status = "none"
  /\ ledger_status = "none"
  /\ ledger_calls = 0
  /\ now_unix = 0
  /\ analyzed = FALSE
  /\ transmitted = 0
  /\ ai_json = NoAi
  /\ p_yes = 0
  /\ confidence \in StakeGrid
  /\ selected = NoLabel
  /\ effective_conf = 0
  /\ stake = 0
  /\ last_sent = NoPayload
  /\ results = <<>>

\* stake = calc_stake(confidence)
StakeReturn ==
  /\ pc = "stake_call"
  /\ stake' = calc_stake(confidence)
  /\ pc' = "stake_ret"
  /\ UNCHANGED << Config, Idle, Net, nmarkets, idx, m, existing,
                  markets_status, ledger_status, ledger_calls, now_unix,
                  analyzed, transmitted, ai_json, p_yes, confidence,
                  selected, effective_conf, last_sent, results >>

NextStake == StakeReturn

SpecStake == InitStake /\ [][NextStake]_vars


\* =================================================================
\* Properties
\* =================================================================
Outcomes == {"Submitted", "Skipped", "AlreadyVoted", "Expired", "Failed"}

\* positions in results of the lines printed for the k-th market
LinesFor(k) == { j \in DOMAIN results : results[j].idx = k }

HasLine(k, o) == \E j \in LinesFor(k) : results[j].outcome = o

\* the iteration for m has ended (or the whole pass has)
IterationOver == idx >= 1 /\ pc \in {"loop", "sleep", "done"}

\* C1: after a pass over any task list and ledger, whatever the analysis and
\* the submission return or raise, every fetched market has exactly one
\* printed outcome among Submitted, Skipped, AlreadyVoted, Expired, Failed:
\* none is left without one and none gets two.
C1_ExactlyOneOutcome ==
  /\ \A j \in DOMAIN results :
       results[j].outcome \in Outcomes /\ results[j].idx \in 1..idx
  /\ \A k \in 1..idx : Cardinality(LinesFor(k)) <= 1
  /\ IterationOver => \A k \in 1..idx : Cardinality(LinesFor(k)) = 1
  /\ pc = "done" =>
       /\ idx = nmarkets
       /\ Len(results) = nmarkets
       /\ \A k \in 1..nmarkets : Cardinality(LinesFor(k)) = 1

C1_Witness ==
  /\ pc = "done"
  /\ nmarkets = 2
  /\ HasLine(1, "Failed")
  /\ HasLine(2, "Submitted")

\* C2: a closed market ends as Expired whatever the ledger holds for it and
\* whatever ALLOW_REVOTE, REVOTE_DEADLINE_WITHIN and its deadline are; the
\* closed test comes before the prior-forecast test, and neither analyze nor
\* submit_forecast is called for it.
C2_ClosedIsExpired ==
  (idx >= 1 /\ m.status = "closed" /\ pc # "check") =>
     /\ pc \in {"loop", "done"}
     /\ ~analyzed
     /\ transmitted = 0
     /\ last_sent = NoPayload
     /\ LinesFor(idx) # {}
     /\ \A j \in LinesFor(idx) :
          /\ results[j].outcome = "Expired"
          /\ ~results[j].analyzed
          /\ results[j].transmitted = 0

\* a closed market whose prior forecast would make the ALREADY VOTED line
\* raise, in late-window mode with the deadline inside the window
C2_Witness ==
  /\ idx >= 1
  /\ m.status = "closed"
  /\ m.slug \in DOMAIN existing
  /\ FormatRaises(existing[m.slug])
  /\ ~ALLOW_REVOTE
  /\ REVOTE_DEADLINE_WITHIN > 0
  /\ iso_to_unix(m.deadline_at) - now_unix <= REVOTE_DEADLINE_WITHIN
  /\ HasLine(idx, "Expired")


\* the reference revote table for an open market: Eligible without a prior
\* forecast, with ALLOW_REVOTE, or inside the late window
RefEligible ==
  \/ m.slug \notin DOMAIN existing
  \/ ALLOW_REVOTE
  \/ /\ ~ALLOW_REVOTE
     /\ REVOTE_DEADLINE_WITHIN > 0
     /\ iso_to_unix(m.deadline_at) - now_unix <= REVOTE_DEADLINE_WITHIN

\* C3: for an open market the revote decision equals the reference table,
\* Eligible (the analysis is reached) or AlreadyVoted (that line is printed),
\* and depends on nothing else, in particular not on the field values of the
\* prior forecast.
C3_RevoteTable ==
  (idx >= 1 /\ m.status = "open" /\ pc # "check") =>
     IF RefEligible
       THEN analyzed \/ pc = "analyze"
       ELSE ~analyzed /\ HasLine(idx, "AlreadyVoted")

\* C4: a market that ends as AlreadyVoted (open, prior forecast, ALLOW_REVOTE
\* off, and the window 0 or the deadline beyond it) is never analysed and
\* nothing is posted for it in the pass.
C4_AlreadyVotedUntouched ==
  /\ \A j \in DOMAIN results :
       results[j].outcome = "AlreadyVoted" =>
         ~results[j].analyzed /\ results[j].transmitted = 0
  /\ ( /\ idx >= 1
       /\ m.status = "open"
       /\ m.slug \in DOMAIN existing
       /\ ~ALLOW_REVOTE
       /\ \/ REVOTE_DEADLINE_WITHIN = 0
          \/ iso_to_unix(m.deadline_at) - now_unix > REVOTE_DEADLINE_WITHIN )
     => /\ ~analyzed
        /\ transmitted = 0
        /\ last_sent = NoPayload
        /\ pc \in {"check", "loop", "done"}
        /\ ~HasLine(idx, "Submitted")
        /\ ~HasLine(idx, "Skipped")

\* both shapes of the case: window 0, and a deadline one second beyond the
\* window
C4_Witness ==
  /\ idx >= 1
  /\ HasLine(idx, "AlreadyVoted")
  /\ m.slug \in DOMAIN existing
  /\ ~ALLOW_REVOTE
  /\ REVOTE_DEADLINE_WITHIN > 0
  /\ iso_to_unix(m.deadline_at) - now_unix = REVOTE_DEADLINE_WITHIN + 1
  /\ \E j \in DOMAIN results : results[j].idx < idx /\ results[j].analyzed

\* the line printed for m is Failed and the loop goes on
FailedAndGoesOn ==
  /\ pc' = "loop"
  /\ Len(results') = Len(results) + 1
  /\ results'[Len(results')].idx = idx
  /\ results'[Len(results')].outcome = "Failed"

\* C5: a failure confined to one market (analyze raising or returning
\* unparsable output, the POST timing out or raising) gives that market the
\* outcome Failed and never aborts the pass: the loop goes on to the markets
\* after it and the pass runs to its end.
C5_FailureIsolated ==
  /\ [](idx >= 1 => pc \notin {"crash", "exit"})
  /\ [](pc = "done" =>
          \A j \in DOMAIN results :
            results[j].outcome = "Failed" =>
              \A k \in (results[j].idx + 1)..nmarkets : LinesFor(k) # {})
  /\ [][(AnalyzeRaises \/ SubmitRaises) => FailedAndGoesOn]_vars

\* a failed analysis on the first market, a timed-out POST on the second
\* (which was sent), and the pass ended
C5_Witness ==
  /\ pc = "done"
  /\ nmarkets >= 2
  /\ \E j \in LinesFor(1) :
       results[j].outcome = "Failed" /\ results[j].analyzed
         /\ results[j].transmitted = 0
  /\ \E j \in LinesFor(2) :
       results[j].outcome = "Failed" /\ results[j].transmitted = 1

AnsweredOk(r) == r.status = HTTP_OK /\ r.ok

\* C6: a transmitted submission is recorded as Submitted only when the
\* service answered with transport and application success, and as Failed
\* whenever the answer is a non-2xx status or a 2xx with a failure flag.
C6_SubmittedOnlyOnSuccess ==
  \A j \in DOMAIN results :
    /\ results[j].outcome = "Submitted" => AnsweredOk(results[j].resp)
    /\ (results[j].transmitted >= 1 /\ results[j].resp # NoResponse
          /\ ~AnsweredOk(results[j].resp))
         => results[j].outcome = "Failed"

\* C7: when the my-forecasts call answers with a non-success status the pass
\* goes on with an empty ledger: every open market is taken to have no prior
\* forecast and none ends as AlreadyVoted.
C7_LedgerHttpErrorFailsOpen ==
  ledger_status = "http_error" =>
     /\ pc \notin {"crash", "exit", "ledger"}
     /\ DOMAIN existing = {}
     /\ \A j \in DOMAIN results : results[j].outcome # "AlreadyVoted"
     /\ (idx >= 1 /\ m.status = "open" /\ pc # "check")
          => (analyzed \/ pc = "analyze")

C7_Witness ==
  /\ ledger_status = "http_error"
  /\ pc = "done"
  /\ nmarkets >= 2
  /\ ~ALLOW_REVOTE
  /\ REVOTE_DEADLINE_WITHIN = 0
  /\ m.status = "open"
  /\ analyzed
  /\ HasLine(1, "Submitted")

\* C8: when the my-forecasts call raises (connection failure, timeout) the
\* pass is not aborted either: it goes on with the empty ledger and
\* reconciles every fetched market.
C8_LedgerRaiseFailsOpen ==
  ledger_status = "raised" =>
     /\ pc \notin {"crash", "exit"}
     /\ DOMAIN existing = {}

\* C9: when the list-markets call answers with a non-success status the pass
\* aborts before anything else: the ledger is not requested, analyze is never
\* called and nothing is posted.
C9_MarketsHttpErrorAborts ==
  markets_status = "http_error" =>
     /\ pc = "exit"
     /\ ledger_calls = 0
     /\ ledger_status = "none"
     /\ idx = 0
     /\ ~analyzed
     /\ transmitted = 0
     /\ last_sent = NoPayload
     /\ results = <<>>

C9_Witness ==
  /\ markets_status = "http_error"
  /\ pc = "exit"

\* the estimate of m was turned into a stake (lines 173-187 ran through)
StakeComputed == idx >= 1 /\ analyzed /\ ~HasLine(idx, "Failed")

\* C10: an effective confidence below MIN_CONFIDENCE gives stake 0 and the
\* market is Skipped with nothing posted; no submission with stake 0 is ever
\* posted (confidence 0.5 with threshold 0.55 and MAX_STAKE 20 is Skipped).
C10_LowConfidenceSkipped ==
  /\ (StakeComputed /\ effective_conf < MIN_CONFIDENCE) =>
        /\ stake = 0
        /\ HasLine(idx, "Skipped")
        /\ transmitted = 0
        /\ last_sent = NoPayload
  /\ last_sent # NoPayload => last_sent.stake_units >= 1
  /\ \A j \in DOMAIN results :
       results[j].outcome = "Skipped" => results[j].transmitted = 0

\* the example of the claim (0.5), and the value just below the threshold
C10_Witness ==
  /\ StakeComputed
  /\ effective_conf = 54999
  /\ HasLine(idx, "Skipped")
  /\ \E j \in DOMAIN results : results[j].idx < idx /\ results[j].outcome = "Skipped"


\* C11: for every confidence c with MIN_CONFIDENCE <= c <= 1 calc_stake(c) is
\* an integer with 1 <= calc_stake(c) <= MAX_STAKE, and calc_stake is
\* monotonically non-decreasing over the whole of [0, 1].
C11_StakeRangeMonotone ==
  pc = "stake_ret" =>
     /\ stake \in 0..MAX_STAKE
     /\ confidence >= MIN_CONFIDENCE => stake >= 1
     /\ \A c2 \in StakeGrid : confidence <= c2 => stake <= calc_stake(c2)

\* the threshold itself, where the stake leaves 0
C11_Witness ==
  /\ pc = "stake_ret"
  /\ confidence = MIN_CONFIDENCE
  /\ stake = 2


\* C12: for a binary market whose clamped p_yes is below 0.5 the stake is
\* computed from max(confidence, 1 - p_yes); for every other estimate
\* (p_yes >= 0.5, or a multi-outcome market) from the raw confidence.  So a
\* binary market with raw confidence below MIN_CONFIDENCE but
\* 1 - p_yes >= MIN_CONFIDENCE is submitted, not skipped.
C12_EffectiveConfidence ==
  StakeComputed =>
     /\ stake = calc_stake(IF Len(m.polymarket_outcomes) <= 1 /\ p_yes < HALF
                             THEN Max(confidence, Scale - p_yes)
                             ELSE confidence)
     /\ ( /\ Len(m.polymarket_outcomes) <= 1
          /\ confidence < MIN_CONFIDENCE
          /\ Scale - p_yes >= MIN_CONFIDENCE )
        => /\ ~HasLine(idx, "Skipped")
           /\ pc = "submit" \/ HasLine(idx, "Submitted")

\* binary market, p_yes 0.3 and confidence 0.4: staked on 0.7 and submitted
C12_Witness ==
  /\ StakeComputed
  /\ Len(m.polymarket_outcomes) <= 1
  /\ p_yes = 30000
  /\ confidence = 40000
  /\ stake = 8
  /\ HasLine(idx, "Submitted")


\* 2 * (MAX_STAKE * (c - 0.5)) in units of 1/Scale
StakeProduct(c) == MAX_STAKE * (c - HALF) * 2

\* n is an integer nearest to MAX_STAKE * (c - 0.5) * 2
NearestTo(n, c) ==
  /\ 2 * (n * Scale - StakeProduct(c)) <= Scale
  /\ 2 * (StakeProduct(c) - n * Scale) <= Scale

\* C13: at or above the threshold the stake is
\* round(MAX_STAKE * (confidence - 0.5) * 2) raised to at least 1 and capped
\* at MAX_STAKE; a market analysed as p_yes 0.8, confidence 0.9 (threshold
\* 0.55, MAX_STAKE 20) is Submitted with stake 16.
C13_StakeFormula ==
  /\ (StakeComputed /\ effective_conf >= MIN_CONFIDENCE) =>
        \E n \in 0..MAX_STAKE :
           /\ NearestTo(n, effective_conf)
           /\ stake = Max(1, Min(MAX_STAKE, n))
  /\ (StakeComputed /\ p_yes = 80000 /\ confidence = 90000) =>
        /\ stake = 16
        /\ ~HasLine(idx, "Skipped")
        /\ \/ pc = "submit"
           \/ HasLine(idx, "Submitted") /\ last_sent.stake_units = 16

\* the example of the claim, on a market without a prior forecast
C13_Witness ==
  /\ StakeComputed
  /\ m.slug \notin DOMAIN existing
  /\ p_yes = 80000
  /\ confidence = 90000
  /\ HasLine(idx, "Submitted")
  /\ last_sent.stake_units = 16


\* the request in req was sent with a body / without one
IsPost == req.method = "POST"

IsGet == req.method = "GET"

\* X-Signature is the HMAC, keyed by the script's api key, of the very body
\* that is transmitted
SignedAsSent ==
  /\ req.key = creds.api_key
  /\ req.sig = Hmac(creds.api_key, req.body)

\* C14 as stated: in every request the scripts send, a POST carrying a body
\* has an X-Signature that is the HMAC, keyed by the api key, of exactly the
\* transmitted body string, and a GET carries no X-Signature.
C14_EveryPostSigned ==
  /\ IsPost => SignedAsSent
  /\ IsGet => req.sig = NoSig

\* C14 amended: every POST other than the register-agent call of oracles.py
\* has an X-Signature that is the HMAC, keyed by the api key, of exactly the
\* transmitted body string (json.dumps once, signed and sent); the
\* register-agent POST, sent before any api key exists, carries neither
\* credentials nor X-Signature; a GET carries no X-Signature.
C14_AuthenticatedPostSigned ==
  /\ (IsPost /\ req.endpoint # "register-agent") =>
        SignedAsSent /\ req.body.ser = "json.dumps"
  /\ (IsPost /\ req.endpoint = "register-agent") =>
        req.sig = NoSig /\ req.key = "" /\ req.agent = ""
  /\ IsGet => req.sig = NoSig /\ req.body = NoBody

\* a batch of predictions was posted, signed over the body that was sent
C14_Witness ==
  /\ IsPost
  /\ req.endpoint = "agent-predictions-batch"
  /\ Len(req.body.payload.predictions) = BATCH_LIMIT
  /\ req.sig.msg = req.body

MissingCreds == env.agent_id = "" \/ env.api_key = ""

\* the script, or the command of the command-line script, works with the
\* agent's credentials
NeedsCredentials == script \notin Clis \/ argv.cmd \in NeedsCreds

\* C15: when the agent id or the api key is missing from the environment,
\* every variant that needs credentials aborts with an error before it
\* issues any network call.
C15_MissingCredsAbort ==
  (MissingCreds /\ NeedsCredentials) =>
     /\ nreq = 0
     /\ req = NoRequest

\* the forecast in the POST that was sent last
Forwarded == req.body.payload

\* C16: in every variant that forwards a provider estimate the transmitted
\* p_yes lies in [0, 1] (in [0.01, 0.99] in groq_oracle) and the transmitted
\* confidence lies in [0, 1], whatever numbers the provider returned.
C16_TransmittedClamped ==
  (IsPost /\ script \in {"groq"} \cup Examples) =>
     /\ Forwarded.p_yes \in 0..Scale
     /\ Forwarded.confidence \in 0..Scale
     /\ script = "groq" => Forwarded.p_yes \in P_YES_MIN..P_YES_MAX

\* the provider's dict lacks p_yes or confidence
LacksNumber ==
  /\ ai_json # NoAi
  /\ ai_json.p_yes.kind = "missing" \/ ai_json.confidence.kind = "missing"

\* C17: when the provider's output lacks p_yes or confidence the analysis
\* fails and the market ends as Failed: it is never Submitted and never
\* Skipped.
C17_MissingFieldFails ==
  (script = "groq" /\ idx >= 1 /\ LacksNumber) =>
     /\ HasLine(idx, "Failed")
     /\ ~HasLine(idx, "Submitted")
     /\ ~HasLine(idx, "Skipped")
     /\ transmitted = 0

\* the labels of the market's outcome list
Labels(mk) == { mk.polymarket_outcomes[i] : i \in DOMAIN mk.polymarket_outcomes }

\* C18: a submission of groq_oracle for a binary market (at most one
\* outcome) carries no selected_outcome, whatever the provider returned; for
\* a multi-outcome market a selected_outcome it carries is a label of the
\* market's outcome list.
C18_SelectedOutcomeValid ==
  (script = "groq" /\ IsPost) =>
     /\ Len(m.polymarket_outcomes) <= 1 => Forwarded.selected_outcome = NoLabel
     /\ (Len(m.polymarket_outcomes) > 1 /\ Forwarded.selected_outcome # NoLabel)
          => Forwarded.selected_outcome \in Labels(m)


\* the batch command of oracles2.py was given this input
BatchCalled == script = "oracles2" /\ argv.cmd = "batch"

Ended == pc \in {"done", "exit", "crash"}

\* C19: the batch command never sends more than BATCH_LIMIT (50)
\* predictions: an input of more than 50 items, and an input that is not a
\* JSON array, is rejected before any request is issued; an input of
\* exactly 50 items is sent.
C19_BatchLimit ==
  /\ (IsPost /\ req.endpoint = "agent-predictions-batch") =>
        Len(Forwarded.predictions) <= BATCH_LIMIT
  /\ (BatchCalled /\ (argv.input.kind # "list" \/ argv.input.n > BATCH_LIMIT)) =>
        /\ nreq = 0
        /\ req = NoRequest
        /\ pc \in {"dispatch", "batch", "exit"}
  /\ ( /\ BatchCalled
       /\ ~MissingCreds
       /\ argv.input.kind = "list"
       /\ argv.input.n = BATCH_LIMIT
       /\ Ended ) =>
        /\ nreq = 1
        /\ IsPost
        /\ Len(Forwarded.predictions) = BATCH_LIMIT

\* 51 predictions, with credentials: rejected without a request
C19_Witness ==
  /\ BatchCalled
  /\ ~MissingCreds
  /\ argv.input.kind = "list"
  /\ argv.input.n = BATCH_LIMIT + 1
  /\ pc = "exit"
  /\ nreq = 0

DistinctSlugs ==
  \A i, j \in DOMAIN results :
    results[i].idx # results[j].idx => results[i].slug # results[j].slug

\* the lines of the pass that report a transmitted POST for slug s
SentFor(s) ==
  { j \in DOMAIN results : results[j].slug = s /\ results[j].transmitted >= 1 }

Transmits == script = "groq" /\ transmitted' = transmitted + 1

\* C22: between any two consecutive submission transmissions of a pass the
\* fixed pacing delay is performed, also when the earlier of the two
\* transmissions failed.
C22_PacedSubmissions == [][Transmits => slept]_vars


\* a request to this endpoint leaves in this step of groq_oracle
Requests(endpoint) ==
  /\ script = "groq"
  /\ nreq' = nreq + 1
  /\ req'.endpoint = endpoint

\* C23: within a pass the market listing and the ledger listing are each
\* requested exactly once, both before the first analysis or submission;
\* the markets are then handled one at a time in list order with at most
\* one submission in flight, and the ledger snapshot used for the revote
\* decisions is not changed by the pass's own submissions.
C23_SinglePassOrder ==
  /\ [](script = "groq" =>
          /\ ledger_calls <= 1
          /\ (idx >= 1 \/ analyzed \/ transmitted >= 1) =>
                /\ markets_status = "ok"
                /\ ledger_calls = 1
                /\ nreq >= 2)
  /\ [][Requests("list-markets") => nreq = 0]_vars
  /\ [][Requests("my-forecasts") => (nreq = 1 /\ idx = 0)]_vars
  /\ [][Requests("agent-forecast") =>
          (pc = "submit" /\ transmitted = 0 /\ LinesFor(idx) = {})]_vars
  /\ [][(script = "groq" /\ idx' # idx) =>
          /\ idx' = idx + 1
          /\ pc = "loop"
          /\ idx >= 1 => LinesFor(idx) # {}]_vars
  /\ [][(script = "groq" /\ pc # "ledger") => existing' = existing]_vars

\* both markets were submitted, the second one having a prior forecast in
\* the ledger snapshot, after one request to each listing
C23_Witness ==
  /\ script = "groq"
  /\ pc = "done"
  /\ ledger_calls = 1
  /\ nreq = 4
  /\ HasLine(1, "Submitted")
  /\ HasLine(2, "Submitted")
  /\ m.slug \in DOMAIN existing


\* m is open, has a prior forecast, and only the late window allows a revote
LateWindow ==
  /\ script = "groq"
  /\ idx >= 1
  /\ m.status = "open"
  /\ m.slug \in DOMAIN existing
  /\ ~ALLOW_REVOTE
  /\ REVOTE_DEADLINE_WITHIN > 0

\* deadline_at is missing or unparsable, or lies in the past
NoFutureDeadline ==
  \/ m.deadline_at.kind = "bad"
  \/ m.deadline_at.kind = "iso" /\ m.deadline_at.t < now_unix

\* C24: in late-window mode an open market with a prior forecast whose
\* deadline is missing, unparsable or already past is Eligible: it is
\* analysed again and, the stake being at least 1, submitted again.
C24_BadDeadlineRevoted ==
  (LateWindow /\ NoFutureDeadline) =>
     /\ ~HasLine(idx, "AlreadyVoted")
     /\ ~HasLine(idx, "Expired")
     /\ pc # "check" => (pc = "analyze" \/ analyzed)
     /\ (StakeComputed /\ stake >= 1 /\ pc # "submit") =>
           /\ HasLine(idx, "Submitted")
           /\ transmitted = 1

\* an unparsable deadline, revoted
C24_Witness ==
  /\ LateWindow
  /\ m.deadline_at.kind = "bad"
  /\ analyzed
  /\ HasLine(idx, "Submitted")
  /\ transmitted = 1


\* a submission of groq_oracle is in req
EngineSubmission == script = "groq" /\ IsPost

\* v has at most 4 decimal places and no such value is nearer to c
Rounded4(v, c) ==
  /\ v % (Scale \div 10000) = 0
  /\ 2 * (v - c) <= Scale \div 10000
  /\ 2 * (c - v) <= Scale \div 10000

====
